---- MODULE Spec2Model ----
(***************************************************************************)
(* MockTradingBot (src/app.py): the engine object, its tick loop thread(s) *)
(* and the request handlers of the transport layer, which call initialize, *)
(* start, stop and the reading methods on it concurrently (Flask serves    *)
(* each request on its own thread; the engine takes no lock).              *)
(*                                                                         *)
(* Every step of a thread is one write of shared state together with the   *)
(* reads and local computation that lead to it, so every state a           *)
(* concurrent reader can observe between two writes is a state here.       *)
(* Reals are integers (whole currency units); timestamps are left out of   *)
(* the records.                                                            *)
(***************************************************************************)
EXTENDS Integers, Sequences, FiniteSets, TLC

\* ---------------------------------------------------------------- bounds
MaxThreads == 2   \* tick loop threads alive at once
MaxEvents == 5    \* requests issued plus tick iterations begun
MaxLimit == 3     \* largest limit a reader passes to get_trades / get_performance

\* ------------------------------------------------------ program constants
INITIAL_VALUE == 10000
INITIAL_PRICE == 175
DEFAULT_CHECK_INTERVAL == 5
PERF_CAPACITY == 1000
BUY_FRACTION_PCT == 95

\* Request handler threads of the transport layer.
Clients == {"c1", "c2"}
Threads == 1..MaxThreads

\* Outcomes of random.gauss(0.001, 0.015) kept by the model, in percent.
ChangePercents == {-4, 4}
\* Outcomes of random.randint(1000, 9999) kept by the model.
OrderIds == {1000, 9999}
\* Values of the check_interval key a caller may send.
Intervals == {1, -1}

\* A configuration mapping: each recognised key is absent (<<>>) or present
\* with a value (<<v>>).
EmptyConfig == [ticker |-> <<>>, check_interval |-> <<>>]
Configs ==
    { EmptyConfig,
      [ticker |-> <<"AAPL">>, check_interval |-> <<>>] } \cup
    { [ticker |-> <<>>, check_interval |-> <<i>>] : i \in Intervals }

VARIABLES
    is_running,           \* self.is_running
    bot_thread,           \* self.bot_thread: 0 (None) or the thread's index
    config,               \* self.config
    cash,                 \* self.cash
    shares_held,          \* self.shares_held
    current_price,        \* self.current_price
    bot_state,            \* self.bot_state (timestamps left out)
    trade_history,        \* self.trade_history
    performance_history,  \* self.performance_history
    threads,              \* the tick loop threads: position and locals
    clients,              \* the request handlers: position in start/stop/initialize
    response,             \* the last result returned to a caller
    history,              \* what the callers have done so far, see Init
    initialized,          \* initialize has been called
    reply,                \* the last result returned to a reader
    observed,             \* what get_state last returned, see Init
    completed,            \* the snapshots completed refreshes have published
    events                \* requests issued plus tick iterations begun

lifecycle == <<is_running, bot_thread, config>>
engine == <<cash, shares_held, current_price, trade_history, performance_history>>
callers == <<clients, response, history, initialized>>
readers == <<reply, observed>>
vars == <<is_running, bot_thread, config, cash, shares_held, current_price,
          bot_state, trade_history, performance_history, threads, clients,
          response, history, initialized, reply, observed, completed, events>>

\* ----------------------------------------------------------- pure helpers

\* dict.get(key, default)
ConfigGet(cfg, key, default) ==
    IF cfg[key] = <<>> THEN default ELSE cfg[key][1]

\* `not self.config`: an empty mapping is falsy.
ConfigFalsy(cfg) == \A k \in DOMAIN cfg : cfg[k] = <<>>

\* Python's s[start:] for any integer start.
PySliceFrom(s, start) ==
    LET from == IF start < 0
                THEN (IF Len(s) + start < 0 THEN 0 ELSE Len(s) + start)
                ELSE (IF start > Len(s) THEN Len(s) ELSE start)
    IN  SubSeq(s, from + 1, Len(s))

\* time.sleep(secs) raises ValueError for a negative length.
SleepRaises(secs) == secs < 0

\* int(cash * 0.95 / current_price)
SharesToBuy(c, p) == (c * BUY_FRACTION_PCT) \div (100 * p)

\* current_price * (1 + change_percent)
MovedPrice(p, pct) == (p * (100 + pct)) \div 100

Max(a, b) == IF a > b THEN a ELSE b

\* The mapping update_state writes into bot_state: from its locals
\* position_value and portfolio_value and from self.cash, self.shares_held
\* and self.current_price as they are when the mapping is built.
Snapshot(position_value, portfolio_value, c, s, p) ==
    LET total_pl == portfolio_value - INITIAL_VALUE
    IN  [portfolio_value |-> portfolio_value,
         cash |-> c,
         current_position |->
            IF s > 0
            THEN << [qty |-> s,
                     avg_entry_price |-> p,
                     current_price |-> p,
                     market_value |-> position_value,
                     unrealized_pl |-> IF s > 0 THEN position_value - (s * p) ELSE 0] >>
            ELSE <<>>,
         total_pl |-> total_pl,
         total_pl_pct |-> [num |-> total_pl * 100, den |-> INITIAL_VALUE],
         market_open |-> TRUE]

\* What a reader of get_state() is given besides the status.
SnapshotFields(b) ==
    [k \in {"last_action", "cash", "portfolio_value", "current_position",
             "total_pl", "total_pl_pct"} |-> b[k]]

\* ------------------------------------------------------------------ Init
\* history records the calls made so far, for the statements about them:
\*   "fresh"         no start() has been called
\*   "started"       a start() has been called since the last stop() returned
\*                   success, or was being served while that stop() was
\*   "stopping"      a stop() is past its check, no start() called since
\*   "stopped"       a stop() has returned success, no start() or initialize()
\*                   called since
\*   "stopped_init"  as "stopped", but initialize() has been called since
\* observed is << >>, or <<s>> when the last call of get_state returned s and
\* no tick loop thread has taken a step since.

\* A tick loop thread: the statement it executes next and its locals
\* (check_interval, action, shares_to_buy, cost or revenue, profit,
\* position_value, portfolio_value; 0 when not in use).
NewThread ==
    [pc |-> "unborn", interval |-> 0, action |-> 0, n |-> 0, amount |-> 0,
     profit |-> 0, position_value |-> 0, portfolio_value |-> 0]

Init ==
    /\ is_running = FALSE
    /\ bot_thread = 0
    /\ config = EmptyConfig
    /\ cash = INITIAL_VALUE
    /\ shares_held = 0
    /\ current_price = INITIAL_PRICE
    /\ bot_state = [status |-> "stopped",
                    current_position |-> <<>>,
                    portfolio_value |-> INITIAL_VALUE,
                    cash |-> INITIAL_VALUE,
                    total_pl |-> 0,
                    total_pl_pct |-> [num |-> 0, den |-> INITIAL_VALUE],
                    last_action |-> "HOLD",
                    market_open |-> TRUE]
    /\ trade_history = <<>>
    /\ performance_history = <<>>
    /\ threads = [t \in Threads |-> NewThread]
    /\ clients = [c \in Clients |-> "idle"]
    /\ response = "none"
    /\ history = "fresh"
    /\ initialized = FALSE
    /\ reply = <<>>
    /\ observed = <<>>
    /\ completed = {SnapshotFields(bot_state)}
    /\ events = 0


\* ------------------------------------------------------- the tick loop
\* trading_loop, one action per statement that writes shared state, and one
\* for each run of statements that only read it.  threads[t].pc is the
\* statement thread t executes next.

\* A thread that has been started and has not returned or died.
Alive(t) == threads[t].pc \notin {"unborn", "done", "crashed"}

\* check_interval = self.config.get('check_interval', 5)
LoopConfig(t) ==
    /\ threads[t].pc = "spawned"
    /\ threads' = [threads EXCEPT ![t].pc = "while",
                     ![t].interval =
                        ConfigGet(config, "check_interval", DEFAULT_CHECK_INTERVAL)]
    /\ observed' = <<>>
    /\ UNCHANGED <<lifecycle, engine, bot_state, callers, reply, completed,
                   events>>

\* while self.is_running:
LoopWhile(t) ==
    /\ threads[t].pc = "while"
    /\ is_running => events < MaxEvents
    /\ threads' = [threads EXCEPT ![t].pc = IF is_running THEN "active" ELSE "exit"]
    /\ events' = IF is_running THEN events + 1 ELSE events
    /\ observed' = <<>>
    /\ UNCHANGED <<lifecycle, engine, bot_state, callers, reply, completed>>

\* self.bot_state['status'] = 'active'
LoopActive(t) ==
    /\ threads[t].pc = "active"
    /\ bot_state' = [bot_state EXCEPT !.status = "active"]
    /\ threads' = [threads EXCEPT ![t].pc = "price"]
    /\ observed' = <<>>
    /\ UNCHANGED <<lifecycle, engine, callers, reply, completed, events>>

\* simulate_price_movement
LoopPrice(t) ==
    /\ threads[t].pc = "price"
    /\ \E pct \in ChangePercents : current_price' = MovedPrice(current_price, pct)
    /\ threads' = [threads EXCEPT ![t].pc = "decide"]
    /\ observed' = <<>>
    /\ UNCHANGED <<lifecycle, cash, shares_held, trade_history,
                   performance_history, bot_state, callers, reply, completed,
                   events>>

\* make_trading_decision: 0 HOLD, 1 BUY, 2 SELL
Decisions(s) == IF s = 0 THEN {1, 0} ELSE {2, 0}

LoopDecide(t) ==
    /\ threads[t].pc = "decide"
    /\ \E a \in Decisions(shares_held) :
          threads' = [threads EXCEPT ![t].pc = "execute", ![t].action = a]
    /\ observed' = <<>>
    /\ UNCHANGED <<lifecycle, engine, bot_state, callers, reply, completed,
                   events>>

\* execute_mock_trade as it would be without the test shares_to_buy > 0.
LoopExecuteBuysAlways(t) ==
    /\ threads[t].pc = "execute"
    /\ LET action == threads[t].action
           shares_to_buy == SharesToBuy(cash, current_price)
           revenue == shares_held * current_price
           profit == revenue - ((shares_held * (bot_state.portfolio_value - cash))
                                  \div Max(shares_held, 1))
       IN  threads' = [threads EXCEPT ![t] =
              IF action = 1 /\ shares_held = 0
              THEN [@ EXCEPT !.pc = "buy_cash", !.action = 0,
                             !.n = shares_to_buy,
                             !.amount = shares_to_buy * current_price]
              ELSE IF action = 2 /\ shares_held > 0
              THEN [@ EXCEPT !.pc = "sell_cash", !.action = 0,
                             !.amount = revenue, !.profit = profit]
              ELSE [@ EXCEPT !.pc = "hold", !.action = 0]]
    /\ observed' = <<>>
    /\ UNCHANGED <<lifecycle, engine, bot_state, callers, reply, completed,
                   events>>

\* execute_mock_trade, the statements before its first write: the branch
\* taken and the locals shares_to_buy and cost (BUY) or revenue and profit
\* (SELL).  A BUY that can buy no share ends the call here.
LoopExecute(t) ==
    /\ threads[t].pc = "execute"
    /\ LET action == threads[t].action
           shares_to_buy == SharesToBuy(cash, current_price)
           revenue == shares_held * current_price
           profit == revenue - ((shares_held * (bot_state.portfolio_value - cash))
                                  \div Max(shares_held, 1))
       IN  threads' = [threads EXCEPT ![t] =
              IF action = 1 /\ shares_held = 0
              THEN IF shares_to_buy > 0
                   THEN [@ EXCEPT !.pc = "buy_cash", !.action = 0,
                                  !.n = shares_to_buy,
                                  !.amount = shares_to_buy * current_price]
                   ELSE [@ EXCEPT !.pc = "update", !.action = 0]
              ELSE IF action = 2 /\ shares_held > 0
              THEN [@ EXCEPT !.pc = "sell_cash", !.action = 0,
                             !.amount = revenue, !.profit = profit]
              ELSE [@ EXCEPT !.pc = "hold", !.action = 0]]
    /\ observed' = <<>>
    /\ UNCHANGED <<lifecycle, engine, bot_state, callers, reply, completed,
                   events>>

\* self.cash -= cost
LoopBuyCash(t) ==
    /\ threads[t].pc = "buy_cash"
    /\ cash' = cash - threads[t].amount
    /\ threads' = [threads EXCEPT ![t].pc = "buy_shares", ![t].amount = 0]
    /\ observed' = <<>>
    /\ UNCHANGED <<lifecycle, shares_held, current_price, trade_history,
                   performance_history, bot_state, callers, reply, completed,
                   events>>

\* self.shares_held = shares_to_buy
LoopBuyShares(t) ==
    /\ threads[t].pc = "buy_shares"
    /\ shares_held' = threads[t].n
    /\ threads' = [threads EXCEPT ![t].pc = "buy_append"]
    /\ observed' = <<>>
    /\ UNCHANGED <<lifecycle, cash, current_price, trade_history,
                   performance_history, bot_state, callers, reply, completed,
                   events>>

\* self.trade_history.append(trade), the BUY record
LoopBuyAppend(t) ==
    /\ threads[t].pc = "buy_append"
    /\ \E id \in OrderIds :
          trade_history' = Append(trade_history,
              [action |-> "BUY", shares |-> threads[t].n, price |-> current_price,
               order_id |-> id])
    /\ threads' = [threads EXCEPT ![t].pc = "buy_last", ![t].n = 0]
    /\ observed' = <<>>
    /\ UNCHANGED <<lifecycle, cash, shares_held, current_price,
                   performance_history, bot_state, callers, reply, completed,
                   events>>

\* self.bot_state['last_action'] = 'BUY'
LoopBuyLast(t) ==
    /\ threads[t].pc = "buy_last"
    /\ bot_state' = [bot_state EXCEPT !.last_action = "BUY"]
    /\ threads' = [threads EXCEPT ![t].pc = "update"]
    /\ observed' = <<>>
    /\ UNCHANGED <<lifecycle, engine, callers, reply, completed, events>>

\* self.cash += revenue
LoopSellCash(t) ==
    /\ threads[t].pc = "sell_cash"
    /\ cash' = cash + threads[t].amount
    /\ threads' = [threads EXCEPT ![t].pc = "sell_append", ![t].amount = 0]
    /\ observed' = <<>>
    /\ UNCHANGED <<lifecycle, shares_held, current_price, trade_history,
                   performance_history, bot_state, callers, reply, completed,
                   events>>

\* self.trade_history.append(trade), the SELL record
LoopSellAppend(t) ==
    /\ threads[t].pc = "sell_append"
    /\ \E id \in OrderIds :
          trade_history' = Append(trade_history,
              [action |-> "SELL", shares |-> shares_held, price |-> current_price,
               order_id |-> id, profit |-> threads[t].profit])
    /\ threads' = [threads EXCEPT ![t].pc = "sell_last", ![t].profit = 0]
    /\ observed' = <<>>
    /\ UNCHANGED <<lifecycle, cash, shares_held, current_price,
                   performance_history, bot_state, callers, reply, completed,
                   events>>

\* self.bot_state['last_action'] = 'SELL'
LoopSellLast(t) ==
    /\ threads[t].pc = "sell_last"
    /\ bot_state' = [bot_state EXCEPT !.last_action = "SELL"]
    /\ threads' = [threads EXCEPT ![t].pc = "sell_shares"]
    /\ observed' = <<>>
    /\ UNCHANGED <<lifecycle, engine, callers, reply, completed, events>>

\* self.shares_held = 0
LoopSellShares(t) ==
    /\ threads[t].pc = "sell_shares"
    /\ shares_held' = 0
    /\ threads' = [threads EXCEPT ![t].pc = "update"]
    /\ observed' = <<>>
    /\ UNCHANGED <<lifecycle, cash, current_price, trade_history,
                   performance_history, bot_state, callers, reply, completed,
                   events>>

\* else: self.bot_state['last_action'] = 'HOLD'
LoopHold(t) ==
    /\ threads[t].pc = "hold"
    /\ bot_state' = [bot_state EXCEPT !.last_action = "HOLD"]
    /\ threads' = [threads EXCEPT ![t].pc = "update"]
    /\ observed' = <<>>
    /\ UNCHANGED <<lifecycle, engine, callers, reply, completed, events>>

\* update_state: position_value = ...; portfolio_value = ...
LoopUpdate(t) ==
    /\ threads[t].pc = "update"
    /\ threads' = [threads EXCEPT ![t].pc = "refresh",
                     ![t].position_value = shares_held * current_price,
                     ![t].portfolio_value = cash + shares_held * current_price]
    /\ observed' = <<>>
    /\ UNCHANGED <<lifecycle, engine, bot_state, callers, reply, completed,
                   events>>

\* update_state: self.bot_state.update({...})
LoopRefresh(t) ==
    /\ threads[t].pc = "refresh"
    /\ LET snap == Snapshot(threads[t].position_value, threads[t].portfolio_value,
                            cash, shares_held, current_price)
           new == [k \in DOMAIN bot_state |->
                     IF k \in DOMAIN snap THEN snap[k] ELSE bot_state[k]]
       IN  /\ bot_state' = new
           /\ completed' = completed \cup {SnapshotFields(new)}
    /\ threads' = [threads EXCEPT ![t].pc = "perf_append"]
    /\ observed' = <<>>
    /\ UNCHANGED <<lifecycle, engine, callers, reply, events>>

\* update_state: self.performance_history.append({...})
LoopPerfAppend(t) ==
    /\ threads[t].pc = "perf_append"
    /\ performance_history' = Append(performance_history,
          [portfolio_value |-> threads[t].portfolio_value, cash |-> cash,
           position_value |-> threads[t].position_value])
    /\ threads' = [threads EXCEPT ![t].pc = "perf_trim",
                     ![t].position_value = 0, ![t].portfolio_value = 0]
    /\ observed' = <<>>
    /\ UNCHANGED <<lifecycle, cash, shares_held, current_price, trade_history,
                   bot_state, callers, reply, completed, events>>

\* update_state: keep only the last 1000 records
LoopPerfTrim(t) ==
    /\ threads[t].pc = "perf_trim"
    /\ performance_history' =
          IF Len(performance_history) > PERF_CAPACITY
          THEN PySliceFrom(performance_history, -PERF_CAPACITY)
          ELSE performance_history
    /\ threads' = [threads EXCEPT ![t].pc = "sleep"]
    /\ observed' = <<>>
    /\ UNCHANGED <<lifecycle, cash, shares_held, current_price, trade_history,
                   bot_state, callers, reply, completed, events>>

\* time.sleep(check_interval), the last statement of the try block
LoopSleep(t) ==
    /\ threads[t].pc = "sleep"
    /\ threads' = [threads EXCEPT ![t].pc =
                     IF SleepRaises(threads[t].interval) THEN "except" ELSE "while"]
    /\ observed' = <<>>
    /\ UNCHANGED <<lifecycle, engine, bot_state, callers, reply, completed,
                   events>>

\* except Exception: print(...); time.sleep(check_interval).  What this
\* sleep raises is raised outside the try block and ends the thread.
LoopExcept(t) ==
    /\ threads[t].pc = "except"
    /\ threads' = [threads EXCEPT ![t].pc =
                     IF SleepRaises(threads[t].interval) THEN "crashed" ELSE "while"]
    /\ observed' = <<>>
    /\ UNCHANGED <<lifecycle, engine, bot_state, callers, reply, completed,
                   events>>

\* after the loop: self.bot_state['status'] = 'stopped'
LoopExit(t) ==
    /\ threads[t].pc = "exit"
    /\ bot_state' = [bot_state EXCEPT !.status = "stopped"]
    /\ threads' = [threads EXCEPT ![t].pc = "done"]
    /\ observed' = <<>>
    /\ UNCHANGED <<lifecycle, engine, callers, reply, completed, events>>

\* ------------------------------------------------- the request handlers
\* initialize, start and stop as the transport layer's threads run them, one
\* action per read or write of shared state.  clients[c] is the statement
\* handler c executes next ("idle": between requests).

InStart(c) == clients[c] \in {"start_config", "start_set", "start_spawn"}
InInitialize(c) == clients[c] = "init_status"

\* initialize as it would be if it also reset the position.
InitializeCallResets(c, cfg) ==
    /\ clients[c] = "idle"
    /\ events < MaxEvents
    /\ events' = events + 1
    /\ config' = cfg
    /\ cash' = INITIAL_VALUE
    /\ shares_held' = 0
    /\ clients' = [clients EXCEPT ![c] = "init_status"]
    /\ history' = IF history = "stopped" THEN "stopped_init" ELSE history
    /\ initialized' = TRUE
    /\ UNCHANGED <<is_running, bot_thread, current_price, trade_history,
                   performance_history, bot_state, threads, response, readers,
                   completed>>

\* initialize: self.config = config
InitializeCall(c, cfg) ==
    /\ clients[c] = "idle"
    /\ events < MaxEvents
    /\ events' = events + 1
    /\ config' = cfg
    /\ clients' = [clients EXCEPT ![c] = "init_status"]
    /\ history' = IF history = "stopped" THEN "stopped_init" ELSE history
    /\ initialized' = TRUE
    /\ UNCHANGED <<is_running, bot_thread, engine, bot_state, threads, response,
                   readers, completed>>

\* initialize: self.bot_state['status'] = 'initialized'; return success
InitializeStatus(c) ==
    /\ clients[c] = "init_status"
    /\ bot_state' = [bot_state EXCEPT !.status = "initialized"]
    /\ response' = "Mock bot initialized"
    /\ clients' = [clients EXCEPT ![c] = "idle"]
    /\ UNCHANGED <<lifecycle, engine, threads, history, initialized, readers,
                   completed, events>>

\* start: if self.is_running: return 'Bot already running'
StartCall(c) ==
    /\ clients[c] = "idle"
    /\ events < MaxEvents
    /\ events' = events + 1
    /\ Cardinality({t \in Threads : ~Alive(t)})
          > Cardinality({d \in Clients : InStart(d)})
    /\ IF is_running
       THEN /\ response' = "Bot already running"
            /\ UNCHANGED clients
       ELSE /\ clients' = [clients EXCEPT ![c] = "start_config"]
            /\ UNCHANGED response
    /\ history' = "started"
    /\ UNCHANGED <<lifecycle, engine, bot_state, threads, initialized, readers,
                   completed>>

\* start: if not self.config: return 'Bot not initialized'
StartConfig(c) ==
    /\ clients[c] = "start_config"
    /\ IF ConfigFalsy(config)
       THEN /\ response' = "Bot not initialized"
            /\ clients' = [clients EXCEPT ![c] = "idle"]
       ELSE /\ clients' = [clients EXCEPT ![c] = "start_set"]
            /\ UNCHANGED response
    /\ UNCHANGED <<lifecycle, engine, bot_state, threads, history, initialized,
                   readers, completed, events>>

\* start: self.is_running = True
StartSet(c) ==
    /\ clients[c] = "start_set"
    /\ is_running' = TRUE
    /\ clients' = [clients EXCEPT ![c] = "start_spawn"]
    /\ UNCHANGED <<bot_thread, config, engine, bot_state, threads, response,
                   history, initialized, readers, completed, events>>

\* start: self.bot_thread = threading.Thread(...); self.bot_thread.start();
\* return success.  The new thread takes the first slot no live thread holds.
StartSpawn(c) ==
    /\ clients[c] = "start_spawn"
    /\ LET t == CHOOSE u \in Threads :
                   /\ ~Alive(u)
                   /\ \A v \in Threads : v < u => Alive(v)
       IN  /\ bot_thread' = t
           /\ threads' = [threads EXCEPT ![t] = [NewThread EXCEPT !.pc = "spawned"]]
    /\ response' = "Mock bot started"
    /\ clients' = [clients EXCEPT ![c] = "idle"]
    /\ UNCHANGED <<is_running, config, engine, bot_state, history, initialized,
                   readers, completed, events>>

\* stop: if not self.is_running: return 'Bot not running'
StopCall(c) ==
    /\ clients[c] = "idle"
    /\ events < MaxEvents
    /\ events' = events + 1
    /\ IF ~is_running
       THEN /\ response' = "Bot not running"
            /\ UNCHANGED <<clients, history>>
       ELSE /\ clients' = [clients EXCEPT ![c] = "stop_clear"]
            /\ history' = IF \E d \in Clients : InStart(d)
                          THEN "started" ELSE "stopping"
            /\ UNCHANGED response
    /\ UNCHANGED <<lifecycle, engine, bot_state, threads, initialized, readers,
                   completed>>

\* StopClear with the assignment to the running flag dropped.
StopClearKeepsFlag(c) ==
    /\ clients[c] = "stop_clear"
    /\ clients' = [clients EXCEPT ![c] = "stop_join"]
    /\ UNCHANGED <<lifecycle, engine, bot_state, threads, response, history,
                   initialized, readers, completed, events>>

\* stop: self.is_running = False
StopClear(c) ==
    /\ clients[c] = "stop_clear"
    /\ is_running' = FALSE
    /\ clients' = [clients EXCEPT ![c] = "stop_join"]
    /\ UNCHANGED <<bot_thread, config, engine, bot_state, threads, response,
                   history, initialized, readers, completed, events>>

\* stop: if self.bot_thread: self.bot_thread.join(timeout=5), there being no
\* thread or the thread having ended.
StopJoinReturns(c) ==
    /\ clients[c] = "stop_join"
    /\ IF bot_thread = 0 THEN TRUE ELSE ~Alive(bot_thread)
    /\ clients' = [clients EXCEPT ![c] = "stop_status"]
    /\ UNCHANGED <<lifecycle, engine, bot_state, threads, response, history,
                   initialized, readers, completed, events>>

\* stop: self.bot_thread.join(timeout=5), the timeout passing with the thread
\* still alive.
StopJoinTimeout(c) ==
    /\ clients[c] = "stop_join"
    /\ IF bot_thread = 0 THEN FALSE ELSE Alive(bot_thread)
    /\ clients' = [clients EXCEPT ![c] = "stop_status"]
    /\ UNCHANGED <<lifecycle, engine, bot_state, threads, response, history,
                   initialized, readers, completed, events>>

\* stop: self.bot_state['status'] = 'stopped'; return success
StopStatus(c) ==
    /\ clients[c] = "stop_status"
    /\ bot_state' = [bot_state EXCEPT !.status = "stopped"]
    /\ response' = "Mock bot stopped"
    /\ clients' = [clients EXCEPT ![c] = "idle"]
    /\ history' = IF history # "stopping" THEN history
                  ELSE IF \E d \in Clients : InInitialize(d) THEN "stopped_init"
                  ELSE "stopped"
    /\ UNCHANGED <<lifecycle, engine, threads, initialized, readers, completed,
                   events>>

\* ------------------------------------------------------------ the readers
\* get_state, get_trades and get_performance are single return statements:
\* what a reader is given in a state is the value of these in that state.

\* get_state: return self.bot_state
GetState == bot_state

\* get_trades: return self.trade_history[-limit:]
GetTrades(limit) == PySliceFrom(trade_history, -limit)

\* get_performance: return self.performance_history[-limit:]
GetPerformance(limit) == PySliceFrom(performance_history, -limit)

\* The request handlers that read.  clients[c] is "status_stamp" and then
\* "status_return" while handler c is inside get_status.

\* get_status: state = bot.get_state()
GetStatusCall(c) ==
    /\ clients[c] = "idle"
    /\ events < MaxEvents
    /\ events' = events + 1
    /\ observed' = <<GetState>>
    /\ clients' = [clients EXCEPT ![c] = "status_stamp"]
    /\ UNCHANGED <<lifecycle, engine, bot_state, threads, response, history,
                   initialized, reply, completed>>

\* get_status: state['next_market_open'] = datetime.now().isoformat(), where
\* state is the mapping get_state returned, the engine's own bot_state.
GetStatusStamp(c) ==
    /\ clients[c] = "status_stamp"
    /\ bot_state' = [k \in DOMAIN bot_state \cup {"next_market_open"} |->
                       IF k = "next_market_open" THEN "now" ELSE bot_state[k]]
    /\ clients' = [clients EXCEPT ![c] = "status_return"]
    /\ UNCHANGED <<lifecycle, engine, threads, response, history, initialized,
                   readers, completed, events>>

\* get_status: return jsonify(state)
GetStatusReturn(c) ==
    /\ clients[c] = "status_return"
    /\ reply' = <<bot_state>>
    /\ clients' = [clients EXCEPT ![c] = "idle"]
    /\ UNCHANGED <<lifecycle, engine, bot_state, threads, response, history,
                   initialized, observed, completed, events>>

\* get_trades: trades = bot.get_trades(limit); return jsonify(...)
GetTradesCall(c, limit) ==
    /\ clients[c] = "idle"
    /\ events < MaxEvents
    /\ events' = events + 1
    /\ reply' = <<[trades |-> GetTrades(limit), count |-> Len(GetTrades(limit))]>>
    /\ UNCHANGED <<lifecycle, engine, bot_state, threads, callers, observed,
                   completed>>

\* get_performance: performance = bot.get_performance(limit); return jsonify(...)
GetPerformanceCall(c, limit) ==
    /\ clients[c] = "idle"
    /\ events < MaxEvents
    /\ events' = events + 1
    /\ reply' = <<[performance |-> GetPerformance(limit),
                   count |-> Len(GetPerformance(limit))]>>
    /\ UNCHANGED <<lifecycle, engine, bot_state, threads, callers, observed,
                   completed>>

\* ------------------------------------------------------ specifications

\* A step of a tick loop thread.
LoopStep(t) ==
    \/ LoopConfig(t)
    \/ LoopWhile(t)
    \/ LoopActive(t)
    \/ LoopPrice(t)
    \/ LoopDecide(t)
    \/ LoopExecute(t)
    \/ LoopBuyCash(t)
    \/ LoopBuyShares(t)
    \/ LoopBuyAppend(t)
    \/ LoopBuyLast(t)
    \/ LoopSellCash(t)
    \/ LoopSellAppend(t)
    \/ LoopSellLast(t)
    \/ LoopSellShares(t)
    \/ LoopHold(t)
    \/ LoopUpdate(t)
    \/ LoopRefresh(t)
    \/ LoopPerfAppend(t)
    \/ LoopPerfTrim(t)
    \/ LoopSleep(t)
    \/ LoopExcept(t)
    \/ LoopExit(t)

\* A step of request handler c.
ClientStep(c) ==
    \/ \E cfg \in Configs : InitializeCall(c, cfg)
    \/ InitializeStatus(c)
    \/ StartCall(c)
    \/ StartConfig(c)
    \/ StartSet(c)
    \/ StartSpawn(c)
    \/ StopCall(c)
    \/ StopClear(c)
    \/ StopJoinReturns(c)
    \/ StopJoinTimeout(c)
    \/ StopStatus(c)

\* Requests served one at a time, beside the tick loop threads.
Next ==
    \/ \E t \in Threads : LoopStep(t)
    \/ ClientStep("c1")

Spec == Init /\ [][Next]_vars

\* Requests served concurrently, as the transport layer's threads do.
NextConcurrent ==
    \/ \E t \in Threads : LoopStep(t)
    \/ \E c \in Clients : ClientStep(c)

SpecConcurrent == Init /\ [][NextConcurrent]_vars

\* A step of request handler c when it serves a read.
ReaderStep(c) ==
    \/ GetStatusCall(c)
    \/ GetStatusStamp(c)
    \/ GetStatusReturn(c)
    \/ \E limit \in 0..MaxLimit : GetTradesCall(c, limit)
    \/ \E limit \in 0..MaxLimit : GetPerformanceCall(c, limit)

\* Requests of every kind, reads included, served one at a time.
NextReaders ==
    \/ \E t \in Threads : LoopStep(t)
    \/ ClientStep("c1")
    \/ ReaderStep("c1")

SpecReaders == Init /\ [][NextReaders]_vars

\* The same, with every tick loop thread scheduled again and again: a thread
\* that has a statement to execute eventually executes it.
SpecFair ==
    /\ Init
    /\ [][NextReaders]_vars
    /\ \A t \in Threads : WF_vars(LoopStep(t))


\* ------------------------------------------------ the engine after a long run
\* One iteration of the loop run by a single thread with no other writer in
\* between: lines 153-165 applied to the engine fields s, with pct the
\* outcome of random.gauss, pick that of make_trading_decision and id that
\* of random.randint.
Tick(s, pct, pick, id) ==
    LET p == MovedPrice(s.current_price, pct)
        flat == s.shares_held = 0
        shares_to_buy == SharesToBuy(s.cash, p)
        buys == pick = 1 /\ flat /\ shares_to_buy > 0
        skips == pick = 1 /\ flat /\ shares_to_buy <= 0
        sells == pick = 2 /\ ~flat
        revenue == s.shares_held * p
        profit == revenue -
                    ((s.shares_held * (s.bot_state.portfolio_value - s.cash))
                        \div Max(s.shares_held, 1))
        c == IF buys THEN s.cash - shares_to_buy * p
             ELSE IF sells THEN s.cash + revenue ELSE s.cash
        held == IF buys THEN shares_to_buy ELSE IF sells THEN 0 ELSE s.shares_held
        trades ==
            IF buys
            THEN Append(s.trade_history,
                    [action |-> "BUY", shares |-> shares_to_buy, price |-> p,
                     order_id |-> id])
            ELSE IF sells
            THEN Append(s.trade_history,
                    [action |-> "SELL", shares |-> s.shares_held, price |-> p,
                     order_id |-> id, profit |-> profit])
            ELSE s.trade_history
        last == IF buys THEN "BUY" ELSE IF sells THEN "SELL"
                ELSE IF skips THEN s.bot_state.last_action ELSE "HOLD"
        position_value == held * p
        portfolio_value == c + position_value
        snap == Snapshot(position_value, portfolio_value, c, held, p)
        state == [k \in DOMAIN s.bot_state |->
                    IF k \in DOMAIN snap THEN snap[k]
                    ELSE IF k = "status" THEN "active"
                    ELSE IF k = "last_action" THEN last
                    ELSE s.bot_state[k]]
        samples == Append(s.performance_history,
                      [portfolio_value |-> portfolio_value, cash |-> c,
                       position_value |-> position_value])
    IN  [cash |-> c, shares_held |-> held, current_price |-> p,
         bot_state |-> state, trade_history |-> trades,
         performance_history |->
            IF Len(samples) > PERF_CAPACITY
            THEN PySliceFrom(samples, -PERF_CAPACITY) ELSE samples,
         completed |-> s.completed \cup {SnapshotFields(state)}]

\* The run the long-run specification starts from, tick by tick: 762 ticks
\* that hold while the price wanders around its initial value, then ticks
\* that buy after every rise above 178 and sell after the fall that follows,
\* which drains the cash.
RunPercent(s, k) ==
    IF k <= 762 THEN (IF s.current_price < INITIAL_PRICE THEN 4 ELSE -4)
    ELSE IF s.shares_held = 0 THEN 4 ELSE -4

RunPick(s, k) ==
    IF k <= 762 THEN 0
    ELSE IF s.shares_held > 0 THEN 2
    ELSE IF MovedPrice(s.current_price, RunPercent(s, k)) > 178 THEN 1 ELSE 0

RunTick(s, k) ==
    Tick(s, RunPercent(s, k), RunPick(s, k), IF s.shares_held = 0 THEN 1000 ELSE 9999)

\* Ticks first..last of that run applied to s, by halves.  (The test on the
\* first half's result has it evaluated before the second half is begun; a
\* price never stops being positive.)
RECURSIVE RunTicks(_, _, _)
RunTicks(s, first, last) ==
    IF first > last THEN s
    ELSE IF first = last THEN RunTick(s, first)
    ELSE LET mid == (first + last) \div 2
             half == RunTicks(s, first, mid)
         IN  IF half.current_price > 0 THEN RunTicks(half, mid + 1, last) ELSE half

\* The engine after initialize({'ticker': 'AAPL'}), start() and as many
\* ticks of that run as the performance history holds samples: the loop is
\* about to test the running flag again.
AfterLongRun ==
    LET constructed == [status |-> "initialized",
                        current_position |-> <<>>,
                        portfolio_value |-> INITIAL_VALUE,
                        cash |-> INITIAL_VALUE,
                        total_pl |-> 0,
                        total_pl_pct |-> [num |-> 0, den |-> INITIAL_VALUE],
                        last_action |-> "HOLD",
                        market_open |-> TRUE]
    IN  RunTicks([cash |-> INITIAL_VALUE, shares_held |-> 0,
                  current_price |-> INITIAL_PRICE,
                  bot_state |-> constructed,
                  trade_history |-> <<>>, performance_history |-> <<>>,
                  completed |-> {SnapshotFields(constructed)}],
                 1, PERF_CAPACITY)

InitLongRun ==
    /\ is_running = TRUE
    /\ bot_thread = 1
    /\ config = [ticker |-> <<"AAPL">>, check_interval |-> <<>>]
    /\ cash = AfterLongRun.cash
    /\ shares_held = AfterLongRun.shares_held
    /\ current_price = AfterLongRun.current_price
    /\ bot_state = AfterLongRun.bot_state
    /\ trade_history = AfterLongRun.trade_history
    /\ performance_history = AfterLongRun.performance_history
    /\ threads = [t \in Threads |->
                    IF t = 1
                    THEN [NewThread EXCEPT !.pc = "while",
                                           !.interval = DEFAULT_CHECK_INTERVAL]
                    ELSE NewThread]
    /\ clients = [c \in Clients |-> "idle"]
    /\ response = "Mock bot started"
    /\ history = "started"
    /\ initialized = TRUE
    /\ reply = <<>>
    /\ observed = <<>>
    /\ completed = AfterLongRun.completed
    /\ events = 0

\* One statement of an iteration of the while loop.
LoopIteration(t) ==
    \/ LoopWhile(t)
    \/ LoopActive(t)
    \/ LoopPrice(t)
    \/ LoopDecide(t)
    \/ LoopExecute(t)
    \/ LoopBuyCash(t)
    \/ LoopBuyShares(t)
    \/ LoopBuyAppend(t)
    \/ LoopBuyLast(t)
    \/ LoopSellCash(t)
    \/ LoopSellAppend(t)
    \/ LoopSellLast(t)
    \/ LoopSellShares(t)
    \/ LoopHold(t)
    \/ LoopUpdate(t)
    \/ LoopRefresh(t)
    \/ LoopPerfAppend(t)
    \/ LoopPerfTrim(t)
    \/ LoopSleep(t)

\* The loop goes on from there while no request arrives.
NextLongRun == \E t \in Threads : LoopIteration(t)

SpecLongRun == InitLongRun /\ [][NextLongRun]_vars
\* ================================================================ claims

LiveLoops == {t \in Threads : Alive(t)}

\* C1: at most one tick loop is alive at any time, under every interleaving
\* of initialize, start and stop calls with the steps of the loop.
AtMostOneLoop == Cardinality(LiveLoops) <= 1

\* C2: once stop() has returned success, and until initialize or start is
\* called again, the snapshot's status is "stopped".
StoppedStaysStopped ==
    history = "stopped" => GetState.status = "stopped"

\* C3: start() on a non-running engine fails with NotConfigured exactly when
\* initialize was never called.
NotConfiguredIffNeverInitialized ==
    [][\A c \in Clients :
          StartConfig(c) =>
             ((response' = "Bot not initialized" /\ clients'[c] = "idle")
                <=> ~initialized)]_vars

\* C4: no failure inside a tick ends the tick loop: a loop thread ends only
\* by leaving the while loop, never by an exception.
NoLoopEndsByFailure ==
    \A t \in Threads : threads[t].pc # "crashed"

\* C5: start() while the running flag is true returns AlreadyRunning and
\* changes nothing; start() on an initialized, non-running engine goes on to
\* succeed.
StartTwiceContract ==
    /\ [][\A c \in Clients :
             (StartCall(c) /\ is_running) =>
                /\ response' = "Bot already running"
                /\ clients'[c] = "idle"
                /\ UNCHANGED <<is_running, bot_thread, config, engine, bot_state,
                               threads>>]_vars
    /\ [][\A c \in Clients :
             (StartConfig(c) /\ initialized) => clients'[c] = "start_set"]_vars

\* C6: stop() called before any start(), or after a stop() that returned
\* success with no start() since, returns NotRunning and leaves the running
\* flag, the snapshot (status included), the position and both histories
\* unchanged.
StopWhenNotRunning ==
    [][\A c \in Clients :
          (StopCall(c) /\ history \in {"fresh", "stopped", "stopped_init"}) =>
             /\ response' = "Bot not running"
             /\ clients'[c] = "idle"
             /\ UNCHANGED <<is_running, bot_thread, bot_state, engine, threads>>]_vars

\* C6 witness: a stop() has been refused after an earlier stop() succeeded.
StopRefusedAfterStop ==
    history = "stopped" /\ response = "Bot not running"

\* C7: in every state, cash + shares_held * current_price equals the
\* snapshot's portfolio_value.
PortfolioValueConsistent ==
    cash + shares_held * current_price = GetState.portfolio_value

\* C8: in every state, the fields of the snapshot other than status are
\* together those one completed refresh published, or those of the initial
\* snapshot.
SnapshotFromOneTick == SnapshotFields(GetState) \in completed

\* C9: in every state, the snapshot's current_position is non-null exactly
\* when shares_held > 0.
PositionIffSharesHeld ==
    (GetState.current_position # <<>>) <=> (shares_held > 0)

\* The last min(limit, Len(s)) records of s, in order.
LastRecords(s, limit) ==
    LET k == IF limit < Len(s) THEN limit ELSE Len(s)
    IN  SubSeq(s, Len(s) - k + 1, Len(s))

\* C10: for every limit from 0 upward, get_trades(limit) and
\* get_performance(limit) are the last min(limit, length) records.
TailIsLastRecords ==
    \A limit \in 0..MaxLimit :
        /\ GetTrades(limit) = LastRecords(trade_history, limit)
        /\ GetPerformance(limit) = LastRecords(performance_history, limit)


\* C12: no two records of the trade log carry the same order_id.
OrderIdsUnique ==
    \A i, j \in 1..Len(trade_history) :
       i # j => trade_history[i].order_id # trade_history[j].order_id

\* C14: shares_held is never negative; it changes only by a BUY taking it
\* from 0 to a positive value or a SELL taking it from a positive value to 0;
\* no write of a BUY happens while holding and none of a SELL while flat.
SharesHeldTransitions ==
    /\ [](shares_held >= 0)
    /\ [][shares_held' # shares_held =>
            \E t \in Threads :
               \/ LoopBuyShares(t) /\ shares_held = 0 /\ shares_held' > 0
               \/ LoopSellShares(t) /\ shares_held > 0 /\ shares_held' = 0]_vars
    /\ [][\A t \in Threads :
            /\ (LoopBuyCash(t) \/ LoopBuyShares(t)) => shares_held = 0
            /\ (LoopSellCash(t) \/ LoopSellAppend(t) \/ LoopSellShares(t))
                  => shares_held > 0]_vars

\* C17: cash is never negative: only a BUY decreases it, by at most 95% of
\* the cash held before it.
CashNeverNegative ==
    /\ [](cash >= 0)
    /\ [][cash' < cash =>
            /\ \E t \in Threads : LoopBuyCash(t)
            /\ 100 * (cash - cash') <= BUY_FRACTION_PCT * cash]_vars

\* C18: cash, shares_held, current_price, the trade log and the performance
\* history change only in steps of the tick loop; no step of initialize,
\* start or stop changes them, and initialize changes nothing but the
\* configuration and the status.
IsInitializeStep(c) ==
    (\E cfg \in Configs : InitializeCall(c, cfg)) \/ InitializeStatus(c)

LifecycleFrame ==
    /\ [][engine' # engine => \E t \in Threads : LoopStep(t)]_vars
    /\ [][(\E c \in Clients : ClientStep(c)) => UNCHANGED engine]_vars
    /\ [][(\E c \in Clients : IsInitializeStep(c)) =>
            /\ UNCHANGED <<is_running, bot_thread, engine, threads>>
            /\ \A k \in DOMAIN bot_state \ {"status"} :
                  bot_state'[k] = bot_state[k]]_vars

\* C18 witness: initialize, start and stop have all been served around a
\* tick that traded.
StoppedAfterTrading ==
    /\ history = "stopped"
    /\ response = "Mock bot stopped"
    /\ trade_history # <<>>

\* C20: the trade log alternates BUY, SELL, BUY, ... from a BUY; every
\* record has shares > 0; a SELL record's shares are those of the BUY record
\* before it; the log ends with a BUY exactly when shares are held.
TradeLogAlternates ==
    LET n == Len(trade_history)
    IN  /\ \A i \in 1..n :
              /\ trade_history[i].action = (IF i % 2 = 1 THEN "BUY" ELSE "SELL")
              /\ trade_history[i].shares > 0
              /\ (i % 2 = 0) => trade_history[i].shares = trade_history[i-1].shares
        /\ (n > 0 /\ trade_history[n].action = "BUY") <=> (shares_held > 0)

\* C11: the performance history never holds more than its capacity of
\* samples in a state a reader can see, and the trim that follows an append
\* keeps exactly the most recent samples, in their order.
PerformanceHistoryBounded ==
    /\ [](Len(performance_history) <= PERF_CAPACITY)
    /\ [][\A t \in Threads :
            LoopPerfTrim(t) =>
               performance_history' =
                  LastRecords(performance_history, PERF_CAPACITY)]_vars

\* A BUY decided while flat with cash that buys no whole share.
BuysNothing(t) ==
    /\ threads[t].pc = "execute"
    /\ threads[t].action = 1
    /\ shares_held = 0
    /\ SharesToBuy(cash, current_price) <= 0

\* C15: executing a BUY while flat with cash too small for one share
\* returns from execute_mock_trade with cash and shares_held unchanged and
\* no trade record appended.
SmallCashBuyChangesNothing ==
    [][\A t \in Threads :
          (BuysNothing(t) /\ LoopExecute(t)) =>
             /\ threads'[t].pc = "update"
             /\ UNCHANGED <<cash, shares_held, trade_history>>]_vars

\* C15 witness: the first tick after the long run has decided BUY at a price
\* the cash cannot pay, and execute_mock_trade has returned (a HOLD would
\* have overwritten the SELL the run ended with, and no SELL can come first).
SmallCashBuyDone ==
    \E t \in Threads :
       /\ threads[t].pc = "update"
       /\ events = 1
       /\ shares_held = 0
       /\ SharesToBuy(cash, current_price) <= 0
       /\ bot_state.last_action = "SELL"

\* C16: when execute_mock_trade returns, last_action is BUY if the call
\* appended a BUY record, SELL if it appended a SELL record and HOLD
\* otherwise, a BUY that bought nothing included.
LastActionNamesTheStep ==
    [][\A t \in Threads :
          (threads[t].pc \in {"execute", "buy_last", "sell_shares", "hold"}
             /\ threads'[t].pc = "update") =>
             bot_state'.last_action =
                (IF threads[t].pc = "buy_last" THEN "BUY"
                 ELSE IF threads[t].pc = "sell_shares" THEN "SELL"
                 ELSE "HOLD")]_vars

\* A call of one of the three reading methods by handler c.
IsReadCall(c) ==
    \/ GetStatusCall(c)
    \/ \E limit \in 0..MaxLimit : GetTradesCall(c, limit)
    \/ \E limit \in 0..MaxLimit : GetPerformanceCall(c, limit)

\* C13: get_state, get_trades and get_performance change no engine state,
\* and get_state returns what its last call returned when no tick loop
\* thread has taken a step in between.
ReadsAreIdempotent ==
    /\ [][(\E c \in Clients : IsReadCall(c)) =>
            UNCHANGED <<lifecycle, engine, bot_state>>]_vars
    /\ [][\A c \in Clients :
            (GetStatusCall(c) /\ observed # <<>>) => GetState = observed[1]]_vars

\* A stop() has returned success and no start() has been called since.
Stopped == history \in {"stopped", "stopped_init"}

\* C19: after a successful stop() with no start() after it, every tick loop
\* thread eventually ends; a thread that reads the cleared running flag
\* leaves the loop without another tick; and once the threads have ended,
\* position, snapshot and histories change no more (asked here only while
\* initialize has not been called either, which writes the status).
LoopExitsAfterStop ==
    /\ Stopped ~> (LiveLoops = {} \/ ~Stopped)
    /\ [][\A t \in Threads :
            (LoopWhile(t) /\ ~is_running) => threads'[t].pc = "exit"]_vars
    /\ [][(history = "stopped" /\ LiveLoops = {}) =>
            UNCHANGED <<engine, bot_state>>]_vars
====
